---- MODULE Spec2Model ----
(***************************************************************************)
(* Deriv proxy: a state-machine model of the two server programs of the    *)
(* repository.                                                             *)
(*   "proxy"   : src/unnamed/part_000   (sessions, /me, /logout, /api/buy, *)
(*               per-client upstream socket with authorize / tick / buy)   *)
(*   "backend" : src/backend/server.js  (the simple proxy: store-token,    *)
(*               subscribe / unsubscribe / config, tick forwarding)        *)
(* One action per HTTP route or socket event handler.  Every handler runs  *)
(* to completion (node's single-threaded event loop), so a handler is one  *)
(* atomic step.                                                            *)
(***************************************************************************)
EXTENDS Integers, Sequences, FiniteSets, TLC

\* ------------------------------------------------------------- bounds
MaxSessions == 2      \* session identifiers uuidv4 can hand out
MaxConns    == 2      \* client sockets ever accepted
MaxBuys     == 2      \* POST /api/buy calls ever made
MaxTime     == 2      \* last value of the millisecond clock
MaxSteps    == 5      \* handler invocations in one run
MaxTradeSteps == 7    \* handler invocations in one run of the trade path
MaxPairSteps  == 8    \* handler invocations in one run of two connections

\* ------------------------------------------------------------- values
SIDS     == 1..MaxSessions          \* the strings uuidv4() returns
NoSid    == 0                       \* no SESSION_ID cookie (null / undefined)
Tokens   == {"abc"}
NoToken  == ""                      \* falsy token: missing, or no store entry
Conns    == 1..MaxConns             \* client WebSocket objects, in accept order
NoConn   == 0
Buys     == 1..MaxBuys              \* the res objects of the /api/buy calls
Symbols  == {"R_100"}
NoSymbol == ""
NoStake  == 0                       \* falsy, like a missing stake
\* the bodies of POST /api/buy: complete, without symbol, without stake
BuyBodies ==
  { [symbol |-> "R_100", stake |-> 10],
    [symbol |-> NoSymbol, stake |-> 10],
    [symbol |-> "R_100", stake |-> NoStake] }
ProxyPaths == {"/client-proxy"}
Paths    == ProxyPaths \cup {"/other"}

Null == [null |-> TRUE]             \* JavaScript null

\* Upstream (Deriv) messages, already as the JSON text's value.
AuthorizeBodies ==
  { [loginid |-> "CR1", currency |-> "USD", balance |-> 100, fullname |-> "a"],
    [loginid |-> "CR2", currency |-> "EUR", balance |-> 50,  fullname |-> "b"] }
AuthorizeError == [error |-> [code |-> "InvalidToken", message |-> "bad token"]]
TickBodies ==
  { [symbol |-> s, quote |-> q, epoch |-> 1690000000, id |-> "sub1"] :
      s \in Symbols, q \in {963, 964} }
BuyMsg   == [buy |-> [contract_id |-> 7], msg_type |-> "buy"]
ErrorMsg == [error |-> [code |-> "E", message |-> "failed"], msg_type |-> "buy"]
OtherMsg == [ping |-> "pong"]
UpstreamMsgs ==
  { [authorize |-> a] : a \in AuthorizeBodies \cup {AuthorizeError} }
    \cup { [tick |-> t] : t \in TickBodies }
    \cup { BuyMsg, ErrorMsg, OtherMsg }
\* What arrives on a socket is text: either the JSON text of a value or not JSON.
Text(v)  == [json |-> TRUE, value |-> v]
Garbage  == [json |-> FALSE]
UpstreamData == { Text(m) : m \in UpstreamMsgs } \cup { Garbage }

\* Client messages.
ClientMsgs ==
  { [type |-> "subscribe", symbol |-> s]   : s \in Symbols \cup {NoSymbol} }
    \cup { [type |-> "unsubscribe", symbol |-> s] : s \in Symbols }
    \cup { [type |-> "config", symbol |-> NoSymbol] }
ClientData == { Text(m) : m \in ClientMsgs } \cup { Garbage }

VARIABLES
  program,            \* which server program runs: "proxy" or "backend"
  budget,             \* how many handler invocations the run explores
  running,            \* FALSE once an exception escaped an event handler
  sendAfterClose,     \* what send() does on a closing or closed socket in the
                      \* installed ws release: "throws" or "discards"; "unknown"
                      \* until the first such call shows it
  sessionTokenStore,  \* sessionId -> token (NoToken: no entry)
  issued,             \* identifiers uuidv4 has returned so far
  ws,                 \* client socket of each connection: none / open / closed
  clientMeta,         \* the keys of the clientMeta (clientMap) Map
  meta,               \* the meta object of each connection (kept by closures)
  token,              \* the token const captured by each connection's closures
  awaitingAuthorize,  \* connections whose authorize request upstream has not
                      \* answered yet (the upstream service's side)
  now,                \* Date.now()
  buyCalls,           \* number of /api/buy calls made
  responses,          \* number of HTTP responses each /api/buy call received
  accepted,           \* the connection each call was accepted on: its resolver
                      \* registered and derivWs.send returned without throwing
  steps,              \* handlers run so far
  lastOp,             \* the handler that ran last, with its input
  out                 \* what that handler emitted, in order

vars == << program, budget, running, sendAfterClose, sessionTokenStore, issued, ws, clientMeta,
           meta, token, awaitingAuthorize, now, buyCalls, responses,
           accepted, steps, lastOp, out >>

\* ------------------------------------------------------------- emissions
ToClient(c, m) == [to |-> "client", id |-> c, msg |-> m]
ToDeriv(c, m)  == [to |-> "deriv",  id |-> c, msg |-> m]
CloseDeriv(c)  == [to |-> "deriv",  id |-> c, msg |-> [call |-> "close"]]
Http(r, status, body) ==
  [to |-> "http", id |-> r, msg |-> [status |-> status, body |-> body]]

Op(name, c, sid, arg) == [op |-> name, conn |-> c, sid |-> sid, arg |-> arg]

\* ------------------------------------------------------------- helpers
JSONparse(data) ==
  IF data.json THEN [ok |-> TRUE, msg |-> data.value]
  ELSE [ok |-> FALSE, msg |-> Null]

Has(m, k) == k \in DOMAIN m

NewMeta(sid, derivState) ==
  [ sessionId |-> sid, derivWs |-> derivState, subscribed |-> {},
    accountInfo |-> Null, authorized |-> FALSE, pendingRequests |-> {} ]

\* sessionTokenStore[sid] is truthy
ValidSession(sid) == sid # NoSid /\ sessionTokenStore[sid] # NoToken

\* found.pendingRequests[reqId] = cb : an assignment to an object key
PutPending(p, reqId, r) ==
  { e \in p : e.reqId # reqId } \cup { [reqId |-> reqId, res |-> r] }

\* (mutation) the catch block forgets the delete
DeletePendingNothing(p, reqId) == p

\* delete found.pendingRequests[reqId]
DeletePending(p, reqId) == { e \in p : e.reqId # reqId }

\* socket.send(text), with no callback, on a socket in state st.  On a socket
\* that is closing or closed the releases of the ws package differ: the call
\* throws, or the data is silently discarded; one process runs one release.
\* While connecting it throws.
SendOutcomes(st) ==
  IF st = "open" THEN {"sent"}
  ELSE IF st = "connecting" THEN {"throws"}
  ELSE IF sendAfterClose = "unknown" THEN {"throws", "discards"}
  ELSE {sendAfterClose}

\* what is known of the release after send() on a socket in state st ended so
Observed(st, outcome) ==
  IF st \in {"open", "connecting"} THEN sendAfterClose ELSE outcome

\* an event handler of program p is dispatched
Handler(p) ==
  /\ program = p
  /\ running
  /\ steps < budget
  /\ steps' = steps + 1

InitFor(p, b) ==
  /\ program = p
  /\ budget = b
  /\ running = TRUE
  /\ sendAfterClose = "unknown"
  /\ sessionTokenStore = [s \in SIDS |-> NoToken]
  /\ issued = {}
  /\ ws = [c \in Conns |-> "none"]
  /\ clientMeta = {}
  /\ meta = [c \in Conns |-> NewMeta(NoSid, "none")]
  /\ token = [c \in Conns |-> NoToken]
  /\ awaitingAuthorize = {}
  /\ now = 1
  /\ buyCalls = 0
  /\ responses = [r \in Buys |-> 0]
  /\ accepted = [r \in Buys |-> NoConn]
  /\ steps = 0
  /\ lastOp = Op("init", NoConn, NoSid, Null)
  /\ out = << >>

Init == InitFor("proxy", MaxSteps)

\* (mutation) an identifier generator that can repeat itself
uuidv4Repeats == CHOOSE sid \in SIDS : \A t \in SIDS : sid <= t

\* uuidv4(): an identifier never returned before
uuidv4 == CHOOSE sid \in SIDS \ issued : \A t \in SIDS \ issued : sid <= t

\* ------------------------------------------------------------- part_000: HTTP
StoreToken(tok) ==
  /\ Handler("proxy")
  /\ lastOp' = Op("store-token", NoConn, NoSid, [token |-> tok])
  /\ IF tok = NoToken
       THEN /\ out' = << Http(0, 400, [ok |-> FALSE, error |-> "token missing"]) >>
            /\ UNCHANGED << sessionTokenStore, issued >>
       ELSE /\ issued # SIDS
            /\ LET sid == uuidv4 IN
              /\ issued' = issued \cup {sid}
              /\ sessionTokenStore' = [sessionTokenStore EXCEPT ![sid] = tok]
              /\ out' = << Http(0, 200, [ok |-> TRUE, sessionId |-> sid]) >>
  /\ UNCHANGED << program, budget, running, sendAfterClose, ws, clientMeta, meta, token,
                  awaitingAuthorize, now, buyCalls, accepted, responses >>

\* (mutation) the session comparison inverted
MeFindOtherSession(sid) ==
  LET hits == { c \in clientMeta :
                  meta[c].sessionId # sid /\ meta[c].accountInfo # Null }
  IN IF hits = {} THEN NoConn ELSE CHOOSE c \in hits : \A d \in hits : c <= d

\* the first entry of clientMeta, in insertion order, bound to sid with accountInfo
MeFind(sid) ==
  LET hits == { c \in clientMeta :
                  meta[c].sessionId = sid /\ meta[c].accountInfo # Null }
  IN IF hits = {} THEN NoConn ELSE CHOOSE c \in hits : \A d \in hits : c <= d

Me(sid) ==
  /\ Handler("proxy")
  /\ lastOp' = Op("me", NoConn, sid, Null)
  /\ out' =
       IF ~ValidSession(sid)
         THEN << Http(0, 401, [authorized |-> FALSE]) >>
       ELSE IF MeFind(sid) # NoConn
         THEN << Http(0, 200, [authorized |-> TRUE,
                               account |-> meta[MeFind(sid)].accountInfo]) >>
       ELSE << Http(0, 200, [authorized |-> TRUE, account |-> Null]) >>
  /\ UNCHANGED << program, budget, running, sendAfterClose, sessionTokenStore, issued, ws,
                  clientMeta, meta, token, awaitingAuthorize, now, buyCalls, accepted,
                  responses >>

\* (mutation) logout also drops the session's connections from the registry
LogoutDropsConnections(sid) ==
  /\ Handler("proxy")
  /\ lastOp' = Op("logout", NoConn, sid, Null)
  /\ sessionTokenStore' =
       IF sid # NoSid THEN [sessionTokenStore EXCEPT ![sid] = NoToken]
       ELSE sessionTokenStore
  /\ clientMeta' = { c \in clientMeta : meta[c].sessionId # sid }
  /\ out' = << Http(0, 200, [ok |-> TRUE]) >>
  /\ UNCHANGED << program, budget, running, sendAfterClose, issued, ws,
                  meta, token,
                  awaitingAuthorize, now, buyCalls, accepted, responses >>

Logout(sid) ==
  /\ Handler("proxy")
  /\ lastOp' = Op("logout", NoConn, sid, Null)
  /\ sessionTokenStore' =
       IF sid # NoSid THEN [sessionTokenStore EXCEPT ![sid] = NoToken]
       ELSE sessionTokenStore
  /\ out' = << Http(0, 200, [ok |-> TRUE]) >>
  /\ UNCHANGED << program, budget, running, sendAfterClose, issued, ws,
                  clientMeta, meta, token,
                  awaitingAuthorize, now, buyCalls, accepted, responses >>

\* (mutation) the lookup forgets the authorized flag
BuyFindUnauthorized(sid) ==
  LET hits == { c \in clientMeta :
                  meta[c].sessionId = sid /\ meta[c].derivWs # "none" }
  IN IF hits = {} THEN NoConn ELSE CHOOSE c \in hits : \A d \in hits : c <= d

\* the first entry of clientMeta bound to sid with a derivWs and authorized
BuyFind(sid) ==
  LET hits == { c \in clientMeta :
                  /\ meta[c].sessionId = sid
                  /\ meta[c].derivWs # "none"
                  /\ meta[c].authorized }
  IN IF hits = {} THEN NoConn ELSE CHOOSE c \in hits : \A d \in hits : c <= d

BuyRequest(symbol, stake) ==
  [buy |-> 1, price |-> stake, subscribe |-> 0, symbol |-> symbol]

ApiBuy(sid, symbol, stake) ==
  /\ Handler("proxy")
  /\ buyCalls < MaxBuys
  /\ LET r     == buyCalls + 1
         found == BuyFind(sid)
         reqId == now
     IN
     /\ buyCalls' = r
     /\ lastOp' = Op("buy", found, sid, BuyRequest(symbol, stake))
     /\ IF ~ValidSession(sid) THEN
          /\ out' = << Http(r, 401, [ok |-> FALSE, error |-> "not logged"]) >>
          /\ responses' = [responses EXCEPT ![r] = @ + 1]
          /\ UNCHANGED << meta, accepted, sendAfterClose >>
        ELSE IF symbol = NoSymbol \/ stake = NoStake THEN
          /\ out' = << Http(r, 400, [ok |-> FALSE, error |-> "missing params"]) >>
          /\ responses' = [responses EXCEPT ![r] = @ + 1]
          /\ UNCHANGED << meta, accepted, sendAfterClose >>
        ELSE IF found = NoConn THEN
          /\ out' = << Http(r, 500, [ok |-> FALSE,
                                     error |-> "deriv connection not ready"]) >>
          /\ responses' = [responses EXCEPT ![r] = @ + 1]
          /\ UNCHANGED << meta, accepted, sendAfterClose >>
        ELSE
          LET registered == PutPending(meta[found].pendingRequests, reqId, r) IN
          \E outcome \in SendOutcomes(meta[found].derivWs) :
          /\ sendAfterClose' = Observed(meta[found].derivWs, outcome)
          /\ IF outcome = "sent" THEN
               /\ meta' = [meta EXCEPT ![found].pendingRequests = registered]
               /\ out' = << ToDeriv(found, BuyRequest(symbol, stake)) >>
               /\ accepted' = [accepted EXCEPT ![r] = found]
               /\ UNCHANGED responses
             ELSE IF outcome = "throws" THEN
               /\ meta' = [meta EXCEPT ![found].pendingRequests =
                                         DeletePending(registered, reqId)]
               /\ out' = << Http(r, 500, [ok |-> FALSE,
                                          error |-> "WebSocket is not open"]) >>
               /\ responses' = [responses EXCEPT ![r] = @ + 1]
               /\ UNCHANGED accepted
             ELSE
               /\ meta' = [meta EXCEPT ![found].pendingRequests = registered]
               /\ out' = << >>
               /\ accepted' = [accepted EXCEPT ![r] = found]
               /\ UNCHANGED responses
  /\ UNCHANGED << program, budget, running, sessionTokenStore, issued, ws,
                  clientMeta, token, awaitingAuthorize, now >>

\* ------------------------------------------------------------- part_000: sockets
\* the connection the next accepted client socket becomes
NextConn ==
  IF \E c \in Conns : ws[c] = "none"
    THEN CHOOSE c \in Conns : ws[c] = "none" /\ \A d \in Conns : ws[d] = "none" => c <= d
    ELSE NoConn

\* server.on('upgrade') followed by wss.on('connection')
Upgrade(path, cookie) ==
  /\ Handler("proxy")
  /\ IF path \notin ProxyPaths THEN
       /\ lastOp' = Op("upgrade-rejected", NoConn, NoSid, Null)
       /\ out' = << >>
       /\ UNCHANGED << ws, clientMeta, meta, token >>
     ELSE
       /\ NextConn # NoConn
       /\ LET c == NextConn IN
          /\ lastOp' = Op("connection", c, cookie, Null)
          /\ ws' = [ws EXCEPT ![c] = "open"]
          /\ token' = [token EXCEPT ![c] =
                         IF cookie # NoSid THEN sessionTokenStore[cookie] ELSE NoToken]
          /\ meta' = [meta EXCEPT ![c] = NewMeta(cookie, "connecting")]
          /\ clientMeta' = clientMeta \cup {c}
          /\ out' = << >>
  /\ UNCHANGED << program, budget, running, sendAfterClose, sessionTokenStore, issued,
                  awaitingAuthorize, now, buyCalls, accepted, responses >>

\* (mutation) the store is read again when the upstream socket opens
TokenLookedUpLate(c) ==
  IF meta[c].sessionId # NoSid THEN sessionTokenStore[meta[c].sessionId] ELSE NoToken

\* the token the open handler tests: the const read when the client connected
TokenAtOpen(c) == token[c]

\* derivWs.on('open')
DerivWsOpen(c) ==
  /\ Handler("proxy")
  /\ meta[c].derivWs = "connecting"
  /\ lastOp' = Op("deriv-open", c, meta[c].sessionId, Null)
  /\ meta' = [meta EXCEPT ![c].derivWs = "open"]
  /\ IF TokenAtOpen(c) # NoToken
       THEN /\ out' = << ToDeriv(c, [authorize |-> TokenAtOpen(c)]) >>
            /\ awaitingAuthorize' = awaitingAuthorize \cup {c}
       ELSE /\ out' = << >>
            /\ UNCHANGED awaitingAuthorize
  /\ UNCHANGED << program, budget, running, sendAfterClose, sessionTokenStore, issued, ws,
                  clientMeta, token, now, buyCalls, accepted, responses >>

\* the pending entries in the order Object.entries lists integer keys
RECURSIVE PendingInOrder(_)
PendingInOrder(p) ==
  IF p = {} THEN << >>
  ELSE LET e == CHOOSE x \in p : \A y \in p : x.reqId <= y.reqId
       IN << e >> \o PendingInOrder(p \ {e})

\* cb(msg) of every pending entry: res.json({ ok:true, result: resp })
RECURSIVE Resolve(_, _)
Resolve(entries, msg) ==
  IF entries = << >> THEN << >>
  ELSE << Http(Head(entries).res, 200, [ok |-> TRUE, result |-> msg]) >>
         \o Resolve(Tail(entries), msg)

RECURSIVE Answered(_, _)
Answered(resp, entries) ==
  IF entries = << >> THEN resp
  ELSE Answered([resp EXCEPT ![Head(entries).res] = @ + 1], Tail(entries))

AccountInfo(a) ==
  [loginid |-> a.loginid, currency |-> a.currency, balance |-> a.balance]

\* (mutation) balance pushed before the authorized event
AuthorizedEventsSwapped(c, a) ==
  << ToClient(c, [type |-> "balance", balance |-> a.balance]),
     ToClient(c, [type |-> "authorized", account |-> AccountInfo(a)]) >>

\* the two ws.send calls after a successful authorize
AuthorizedEvents(c, a) ==
  << ToClient(c, [type |-> "authorized", account |-> AccountInfo(a)]),
     ToClient(c, [type |-> "balance", balance |-> a.balance]) >>

\* (mutation) the tick stamped with the quote instead of its epoch
TickEventRestamped(t) ==
  [type |-> "tick", symbol |-> t.symbol, quote |-> t.quote, epoch |-> t.quote]

\* {type:'tick', symbol, quote, epoch} built from msg.tick
TickEvent(t) ==
  [type |-> "tick", symbol |-> t.symbol, quote |-> t.quote, epoch |-> t.epoch]

\* (mutation) one table of resolvers shared by all connections
ResolvableAnywhere(c) == UNION { meta[d].pendingRequests : d \in Conns }

\* meta.pendingRequests of the connection whose upstream socket got the message
Resolvable(c) == meta[c].pendingRequests

\* The upstream service answers an authorize request once; everything else may
\* arrive at any time the socket can still deliver messages.
UpstreamMaySend(c, data) ==
  /\ meta[c].derivWs \in {"open", "closing"}
  /\ (data.json /\ Has(data.value, "authorize")) => c \in awaitingAuthorize

\* derivWs.on('message')
DerivWsMessage(c, data) ==
  /\ Handler("proxy")
  /\ UpstreamMaySend(c, data)
  /\ lastOp' = Op("deriv-message", c, meta[c].sessionId, data)
  /\ LET parsed == JSONparse(data)
         msg    == parsed.msg
     IN
     \E client \in SendOutcomes(ws[c]) :      \* of the ws.send calls of this run
     IF ~parsed.ok THEN
       /\ out' = << >>
       /\ UNCHANGED << running, sendAfterClose, meta, awaitingAuthorize, responses >>
     ELSE IF Has(msg, "authorize") THEN
       /\ sendAfterClose' = Observed(ws[c], client)
       /\ awaitingAuthorize' = awaitingAuthorize \ {c}
       /\ UNCHANGED responses
       /\ IF Has(msg.authorize, "error") THEN
            /\ out' = IF client = "sent"
                        THEN << ToClient(c, [type |-> "error",
                                   message |-> msg.authorize.error.message]) >>
                        ELSE << >>
            /\ running' = (client # "throws")
            /\ UNCHANGED meta
          ELSE
            /\ meta' = [meta EXCEPT ![c].authorized = TRUE,
                                    ![c].accountInfo = AccountInfo(msg.authorize)]
            /\ out' = IF client = "sent"
                        THEN AuthorizedEvents(c, msg.authorize)
                        ELSE << >>
            /\ running' = (client # "throws")
     ELSE IF Has(msg, "tick") THEN
       /\ out' = IF client = "sent" THEN << ToClient(c, TickEvent(msg.tick)) >>
                 ELSE << >>
       /\ running' = (client # "throws")
       /\ sendAfterClose' = Observed(ws[c], client)
       /\ UNCHANGED << meta, awaitingAuthorize, responses >>
     ELSE IF Has(msg, "buy") \/ Has(msg, "error") THEN
       LET entries == PendingInOrder(Resolvable(c)) IN
       /\ sendAfterClose' = Observed(ws[c], client)
       /\ UNCHANGED awaitingAuthorize
       /\ IF client = "throws" THEN
            /\ running' = FALSE
            /\ out' = << >>
            /\ UNCHANGED << meta, responses >>
          ELSE
            /\ out' = (IF client = "sent"
                         THEN << ToClient(c, [type |-> "buy_result", result |-> msg]) >>
                         ELSE << >>) \o Resolve(entries, msg)
            /\ responses' = Answered(responses, entries)
            /\ meta' = [meta EXCEPT ![c].pendingRequests = {}]
            /\ UNCHANGED running
     ELSE
       /\ out' = << >>
       /\ UNCHANGED << running, sendAfterClose, meta, awaitingAuthorize, responses >>
  /\ UNCHANGED << program, budget, sessionTokenStore, issued, ws, clientMeta,
                  token, now, buyCalls, accepted >>

\* (mutation) the client is dropped when its upstream socket goes
DerivWsCloseDropsClient(c) ==
  /\ Handler("proxy")
  /\ meta[c].derivWs \in {"connecting", "open", "closing"}
  /\ lastOp' = Op("deriv-close", c, meta[c].sessionId, Null)
  /\ meta' = [meta EXCEPT ![c].derivWs = "closed"]
  /\ awaitingAuthorize' = awaitingAuthorize \ {c}
  /\ ws' = [ws EXCEPT ![c] = "closed"]
  /\ clientMeta' = clientMeta \ {c}
  /\ out' = << >>
  /\ UNCHANGED << program, budget, running, sendAfterClose, sessionTokenStore,
                  issued, token, now, buyCalls, accepted, responses >>

\* derivWs.on('close') / derivWs.on('error'): the upstream socket is gone
DerivWsClose(c) ==
  /\ Handler("proxy")
  /\ meta[c].derivWs \in {"connecting", "open", "closing"}
  /\ lastOp' = Op("deriv-close", c, meta[c].sessionId, Null)
  /\ meta' = [meta EXCEPT ![c].derivWs = "closed"]
  /\ awaitingAuthorize' = awaitingAuthorize \ {c}
  /\ out' = << >>
  /\ UNCHANGED << program, budget, running, sendAfterClose, sessionTokenStore, issued, ws,
                  clientMeta, token, now, buyCalls, accepted, responses >>

\* ws.on('message'): a message from the client
WsMessage(c, data) ==
  /\ Handler("proxy")
  /\ ws[c] = "open"
  /\ lastOp' = Op("client-message", c, meta[c].sessionId, data)
  /\ LET parsed == JSONparse(data)
         msg    == parsed.msg
     IN
     IF /\ parsed.ok
        /\ msg.type = "subscribe" /\ msg.symbol # NoSymbol
        /\ meta[c].derivWs = "open"
     THEN
       /\ meta' = [meta EXCEPT ![c].subscribed = @ \cup {msg.symbol}]
       /\ out' = << ToDeriv(c, [ticks |-> msg.symbol, subscribe |-> 1]),
                    ToClient(c, [type |-> "subscribed", symbol |-> msg.symbol]) >>
     ELSE
       /\ out' = << >>
       /\ UNCHANGED meta
  /\ UNCHANGED << program, budget, running, sendAfterClose, sessionTokenStore, issued, ws,
                  clientMeta, token, awaitingAuthorize, now, buyCalls, accepted, responses >>

\* (mutation) the upstream socket is left as it is
CloseCalledNothing(st) == st

\* derivWs.close(): a socket still connecting or open starts closing
CloseCalled(st) == IF st \in {"connecting", "open"} THEN "closing" ELSE st

\* (mutation) the entry is never removed
DeregisterNothing(registry, c) == registry

\* clientMeta.delete(ws)
Deregister(registry, c) == registry \ {c}

\* ws.on('close'): the client disconnected
WsClose(c) ==
  /\ Handler("proxy")
  /\ ws[c] = "open"
  /\ lastOp' = Op("client-close", c, meta[c].sessionId, Null)
  /\ ws' = [ws EXCEPT ![c] = "closed"]
  /\ meta' = [meta EXCEPT ![c].derivWs = CloseCalled(@)]
  /\ clientMeta' = Deregister(clientMeta, c)
  /\ out' = << CloseDeriv(c) >>
  /\ UNCHANGED << program, budget, running, sendAfterClose,
                  sessionTokenStore, issued, token,
                  awaitingAuthorize, now, buyCalls, accepted, responses >>

\* the clock behind Date.now()
ClockTick ==
  /\ Handler("proxy")
  /\ now < MaxTime
  /\ now' = now + 1
  /\ lastOp' = Op("clock", NoConn, NoSid, Null)
  /\ out' = << >>
  /\ UNCHANGED << program, budget, running, sendAfterClose, sessionTokenStore, issued, ws,
                  clientMeta, meta, token, awaitingAuthorize, buyCalls, accepted,
                  responses >>

Next ==
  \/ \E tok \in Tokens \cup {NoToken} : StoreToken(tok)
  \/ \E sid \in SIDS \cup {NoSid} : Me(sid)
  \/ \E sid \in SIDS \cup {NoSid} : Logout(sid)
  \/ \E sid \in SIDS \cup {NoSid}, b \in BuyBodies : ApiBuy(sid, b.symbol, b.stake)
  \/ \E p \in Paths, sid \in SIDS \cup {NoSid} : Upgrade(p, sid)
  \/ \E c \in Conns : DerivWsOpen(c)
  \/ \E c \in Conns, d \in UpstreamData : DerivWsMessage(c, d)
  \/ \E c \in Conns : DerivWsClose(c)
  \/ \E c \in Conns, d \in ClientData : WsMessage(c, d)
  \/ \E c \in Conns : WsClose(c)
  \/ ClockTick

Spec == Init /\ [][Next]_vars

\* ------------------------------------------------------------- backend/server.js
BackendStoreToken(tok) ==
  /\ Handler("backend")
  /\ lastOp' = Op("store-token", NoConn, NoSid, [token |-> tok])
  /\ IF tok = NoToken
       THEN /\ out' = << Http(0, 400, [ok |-> FALSE, error |-> "token missing"]) >>
            /\ UNCHANGED << sessionTokenStore, issued >>
       ELSE /\ issued # SIDS
            /\ LET sid == uuidv4 IN
              /\ issued' = issued \cup {sid}
              /\ sessionTokenStore' = [sessionTokenStore EXCEPT ![sid] = tok]
              /\ out' = << Http(0, 200, [ok |-> TRUE, sessionId |-> sid]) >>
  /\ UNCHANGED << program, budget, running, sendAfterClose, ws, clientMeta, meta, token,
                  awaitingAuthorize, now, buyCalls, accepted, responses >>

\* server.on('upgrade') followed by wss.on('connection')
BackendUpgrade(path, cookie) ==
  /\ Handler("backend")
  /\ IF path \notin ProxyPaths THEN
       /\ lastOp' = Op("upgrade-rejected", NoConn, NoSid, Null)
       /\ out' = << >>
       /\ UNCHANGED << ws, clientMeta, meta, token >>
     ELSE
       /\ NextConn # NoConn
       /\ LET c == NextConn IN
          /\ lastOp' = Op("connection", c, cookie, Null)
          /\ ws' = [ws EXCEPT ![c] = "open"]
          /\ token' = [token EXCEPT ![c] =
                         IF cookie # NoSid THEN sessionTokenStore[cookie] ELSE NoToken]
          /\ meta' = [meta EXCEPT ![c] = NewMeta(cookie, "connecting")]
          /\ clientMeta' = clientMeta \cup {c}
          /\ out' = << >>
  /\ UNCHANGED << program, budget, running, sendAfterClose, sessionTokenStore, issued,
                  awaitingAuthorize, now, buyCalls, accepted, responses >>

\* derivWs.on('open')
BackendDerivWsOpen(c) ==
  /\ Handler("backend")
  /\ meta[c].derivWs = "connecting"
  /\ lastOp' = Op("deriv-open", c, meta[c].sessionId, Null)
  /\ meta' = [meta EXCEPT ![c].derivWs = "open"]
  /\ IF token[c] # NoToken
       THEN /\ out' = << ToDeriv(c, [authorize |-> token[c]]),
                         ToClient(c, [type |-> "authorized"]) >>
            /\ awaitingAuthorize' = awaitingAuthorize \cup {c}
       ELSE /\ out' = << >>
            /\ UNCHANGED awaitingAuthorize
  /\ UNCHANGED << program, budget, running, sendAfterClose, sessionTokenStore, issued, ws,
                  clientMeta, token, now, buyCalls, accepted, responses >>

\* derivWs.on('message'): only ticks are handled, everything inside try/catch
BackendDerivWsMessage(c, data) ==
  /\ Handler("backend")
  /\ UpstreamMaySend(c, data)
  /\ lastOp' = Op("deriv-message", c, meta[c].sessionId, data)
  /\ LET parsed == JSONparse(data)
         msg    == parsed.msg
     IN
     /\ awaitingAuthorize' =
          IF parsed.ok /\ Has(msg, "authorize") THEN awaitingAuthorize \ {c}
          ELSE awaitingAuthorize
     /\ \E client \in SendOutcomes(ws[c]) :
          /\ out' = IF parsed.ok /\ Has(msg, "tick") /\ client = "sent"
                      THEN << ToClient(c, TickEvent(msg.tick)) >>
                      ELSE << >>
          /\ sendAfterClose' = IF parsed.ok /\ Has(msg, "tick")
                                 THEN Observed(ws[c], client)
                                 ELSE sendAfterClose
  /\ UNCHANGED << program, budget, running, sessionTokenStore, issued, ws,
                  clientMeta, meta, token, now, buyCalls, accepted, responses >>

\* derivWs.on('close') / derivWs.on('error')
BackendDerivWsClose(c) ==
  /\ Handler("backend")
  /\ meta[c].derivWs \in {"connecting", "open", "closing"}
  /\ lastOp' = Op("deriv-close", c, meta[c].sessionId, Null)
  /\ meta' = [meta EXCEPT ![c].derivWs = "closed"]
  /\ awaitingAuthorize' = awaitingAuthorize \ {c}
  /\ out' = << >>
  /\ UNCHANGED << program, budget, running, sendAfterClose, sessionTokenStore, issued, ws,
                  clientMeta, token, now, buyCalls, accepted, responses >>

\* ws.on('message'): config, subscribe, unsubscribe; everything inside try/catch,
\* and derivWs.send comes first, with no test of the socket's readyState
BackendWsMessage(c, data) ==
  /\ Handler("backend")
  /\ ws[c] = "open"
  /\ lastOp' = Op("client-message", c, meta[c].sessionId, data)
  /\ LET parsed == JSONparse(data)
         msg    == parsed.msg
     IN
     IF ~parsed.ok \/ msg.type = "config" \/ msg.symbol = NoSymbol THEN
       /\ out' = << >>
       /\ UNCHANGED << meta, sendAfterClose >>
     ELSE
       \E outcome \in SendOutcomes(meta[c].derivWs) :
         /\ sendAfterClose' = Observed(meta[c].derivWs, outcome)
         /\ IF outcome = "throws" THEN
              /\ out' = << >>
              /\ UNCHANGED meta
            ELSE IF msg.type = "subscribe" THEN
              /\ meta' = [meta EXCEPT ![c].subscribed = @ \cup {msg.symbol}]
              /\ out' = (IF outcome = "sent"
                           THEN << ToDeriv(c, [ticks |-> msg.symbol, subscribe |-> 1]) >>
                           ELSE << >>)
                        \o << ToClient(c, [type |-> "subscribed", symbol |-> msg.symbol]) >>
            ELSE
              /\ meta' = [meta EXCEPT ![c].subscribed = @ \ {msg.symbol}]
              /\ out' = (IF outcome = "sent"
                           THEN << ToDeriv(c, [forget |-> "ticks"]) >>
                           ELSE << >>)
                        \o << ToClient(c, [type |-> "unsubscribed", symbol |-> msg.symbol]) >>
  /\ UNCHANGED << program, budget, running, sessionTokenStore, issued, ws,
                  clientMeta, token, awaitingAuthorize, now, buyCalls, accepted,
                  responses >>

\* ws.on('close')
BackendWsClose(c) ==
  /\ Handler("backend")
  /\ ws[c] = "open"
  /\ lastOp' = Op("client-close", c, meta[c].sessionId, Null)
  /\ ws' = [ws EXCEPT ![c] = "closed"]
  /\ meta' = [meta EXCEPT ![c].derivWs = CloseCalled(@)]
  /\ clientMeta' = clientMeta \ {c}
  /\ out' = << CloseDeriv(c) >>
  /\ UNCHANGED << program, budget, running, sendAfterClose,
                  sessionTokenStore, issued, token,
                  awaitingAuthorize, now, buyCalls, accepted, responses >>

InitBackend == InitFor("backend", MaxSteps)

NextBackend ==
  \/ \E tok \in Tokens \cup {NoToken} : BackendStoreToken(tok)
  \/ \E p \in Paths, sid \in SIDS \cup {NoSid} : BackendUpgrade(p, sid)
  \/ \E c \in Conns : BackendDerivWsOpen(c)
  \/ \E c \in Conns, d \in UpstreamData : BackendDerivWsMessage(c, d)
  \/ \E c \in Conns : BackendDerivWsClose(c)
  \/ \E c \in Conns, d \in ClientData : BackendWsMessage(c, d)
  \/ \E c \in Conns : BackendWsClose(c)

SpecBackend == InitBackend /\ [][NextBackend]_vars

\* either program
InitBoth == Init \/ InitBackend
NextBoth == Next \/ NextBackend
SpecBoth == InitBoth /\ [][NextBoth]_vars

\* the trade path alone: well-formed trade traffic, explored deeper
TradeData == { Text([authorize |-> a]) : a \in AuthorizeBodies } \cup { Text(BuyMsg), Text(ErrorMsg) }
InitTrade == InitFor("proxy", MaxTradeSteps)
NextTrade ==
  \/ \E tok \in Tokens : StoreToken(tok)
  \/ \E sid \in SIDS : Upgrade("/client-proxy", sid)
  \/ \E c \in Conns : DerivWsOpen(c)
  \/ \E c \in Conns, d \in TradeData : DerivWsMessage(c, d)
  \/ \E c \in Conns : DerivWsClose(c)
  \/ \E c \in Conns : WsClose(c)
  \/ \E sid \in SIDS : ApiBuy(sid, "R_100", 10)
  \/ ClockTick
SpecTrade == InitTrade /\ [][NextTrade]_vars

\* two connections trading side by side: no upstream close, no clock step
InitPair == InitFor("proxy", MaxPairSteps)
NextPair ==
  \/ \E tok \in Tokens : StoreToken(tok)
  \/ \E sid \in SIDS : Upgrade("/client-proxy", sid)
  \/ \E c \in Conns : DerivWsOpen(c)
  \/ \E c \in Conns, d \in TradeData : DerivWsMessage(c, d)
  \/ \E c \in Conns : WsClose(c)
  \/ \E sid \in SIDS : ApiBuy(sid, "R_100", 10)
SpecPair == InitPair /\ [][NextPair]_vars

\* ============================================================= properties
\* the registered connections of a session that are authorized and whose
\* upstream socket is open
ReadyConns(sid) ==
  { c \in clientMeta :
      meta[c].sessionId = sid /\ meta[c].authorized /\ meta[c].derivWs = "open" }

TokenOf(sid) == IF sid = NoSid THEN NoToken ELSE sessionTokenStore[sid]

\* the handler answered one HTTP response, with this status
AnsweredWith(o, status) ==
  Len(o) = 1 /\ o[1].to = "http" /\ o[1].msg.status = status

LastIsUpstream(key) ==
  /\ lastOp.op = "deriv-message"
  /\ lastOp.arg.json
  /\ Has(lastOp.arg.value, key)

LastIsBuy ==
  /\ lastOp.op = "buy"
  /\ TokenOf(lastOp.sid) # NoToken
  /\ lastOp.arg.symbol # NoSymbol
  /\ lastOp.arg.price # NoStake

\* C1: a POST /api/buy with a known session and both parameters, made while no
\* registered connection of the session is authorized with an OPEN upstream
\* socket, is answered at once with a 5xx error, registers no resolver and
\* sends no buy payload.
C1_BuyWithoutReadyUpstreamFails ==
  (LastIsBuy /\ ReadyConns(lastOp.sid) = {}) =>
     /\ Len(out) = 1
     /\ out[1].to = "http" /\ out[1].id = buyCalls /\ out[1].msg.status >= 500
     /\ \A c \in Conns : \A e \in meta[c].pendingRequests : e.res # buyCalls

\* C2: after a buy or error message on a connection (handled without the
\* process dying), every trade request whose payload went out on that
\* connection has been answered, and the connection's pendingRequests is empty.
C2_OneReplyResolvesAllPending ==
  (running /\ (LastIsUpstream("buy") \/ LastIsUpstream("error"))) =>
     /\ \A r \in Buys : accepted[r] = lastOp.conn => responses[r] = 1
     /\ meta[lastOp.conn].pendingRequests = {}

\* C3: the registry holds exactly the client connections that are open; a
\* client disconnect calls close on that connection's own upstream socket, so
\* no upstream socket of a disconnected client stays connecting or open.
C3_RegistryIsOpenClients ==
  /\ clientMeta = { c \in Conns : ws[c] = "open" }
  /\ \A c \in Conns : ws[c] = "closed" => meta[c].derivWs \in {"closing", "closed"}
  /\ lastOp.op = "client-close" =>
       /\ out = << [to |-> "deriv", id |-> lastOp.conn, msg |-> [call |-> "close"]] >>
       /\ lastOp.conn \notin clientMeta

\* every connection the bounds allow was opened and closed again
C3_AllRoundsDone ==
  /\ \A c \in Conns : ws[c] = "closed"
  /\ clientMeta = {}
  /\ lastOp.op = "client-close"

\* C4: an upstream authorize success on a connection whose client is connected
\* sets authorized, stores {loginid, currency, balance} of that message, and
\* sends the client exactly the authorized event and then the balance event;
\* authorized holds exactly when accountInfo is set.
C4_AuthorizeSuccess ==
  /\ \A c \in Conns : meta[c].authorized <=> meta[c].accountInfo # Null
  /\ (/\ LastIsUpstream("authorize")
      /\ ~Has(lastOp.arg.value.authorize, "error")
      /\ ws[lastOp.conn] = "open") =>
       LET c    == lastOp.conn
           a    == lastOp.arg.value.authorize
           info == [loginid |-> a.loginid, currency |-> a.currency,
                    balance |-> a.balance]
       IN /\ meta[c].authorized
          /\ meta[c].accountInfo = info
          /\ out = << [to |-> "client", id |-> c,
                       msg |-> [type |-> "authorized", account |-> info]],
                      [to |-> "client", id |-> c,
                       msg |-> [type |-> "balance", balance |-> a.balance]] >>

C4_AuthorizedReached ==
  /\ LastIsUpstream("authorize")
  /\ ~Has(lastOp.arg.value.authorize, "error")
  /\ ws[lastOp.conn] = "open"
  /\ meta[lastOp.conn].authorized
  /\ Len(out) = 2

LastIsSubscribe ==
  /\ lastOp.op = "client-message"
  /\ lastOp.arg.json
  /\ lastOp.arg.value.type = "subscribe"
  /\ lastOp.arg.value.symbol # NoSymbol

\* C5: a subscribe(symbol) received while the upstream socket is open sends one
\* {ticks: symbol, subscribe: 1} upstream (whether or not symbol is subscribed
\* already), adds symbol to subscribed and acknowledges once; received while
\* the upstream socket is not open it sends nothing upstream, leaves
\* subscribed unchanged and sends no acknowledgement.
C5_SubscribeOnlyWhenUpstreamOpen ==
  [][ LastIsSubscribe' =>
        LET c == lastOp'.conn
            s == lastOp'.arg.value.symbol
        IN IF meta[c].derivWs = "open"
             THEN /\ out' = << [to |-> "deriv", id |-> c,
                                msg |-> [ticks |-> s, subscribe |-> 1]],
                               [to |-> "client", id |-> c,
                                msg |-> [type |-> "subscribed", symbol |-> s]] >>
                  /\ meta'[c].subscribed = meta[c].subscribed \cup {s}
             ELSE /\ out' = << >>
                  /\ meta'[c].subscribed = meta[c].subscribed
    ]_vars

LastIsTick == LastIsUpstream("tick")

\* C6: a tick message received on a connection whose client is connected is
\* forwarded as exactly one tick event, to that connection's client, with
\* symbol, quote and epoch of the message, and changes no connection state; no
\* tick event is sent by any other handler.  Handlers run one at a time, so
\* the events reach the client in the order the messages arrived.
C6_TicksForwardedVerbatim ==
  [][ /\ (LastIsTick' /\ ws[lastOp'.conn] = "open") =>
           LET c == lastOp'.conn
               t == lastOp'.arg.value.tick
           IN /\ out' = << [to |-> "client", id |-> c,
                            msg |-> [type |-> "tick", symbol |-> t.symbol,
                                     quote |-> t.quote, epoch |-> t.epoch]] >>
              /\ meta' = meta
              /\ clientMeta' = clientMeta
      /\ \A i \in 1..Len(out') :
           (out'[i].to = "client" /\ out'[i].msg.type = "tick") =>
              (LastIsTick' /\ out'[i].id = lastOp'.conn)
    ]_vars

C6_TickForwarded ==
  /\ LastIsTick
  /\ ws[lastOp.conn] = "open"
  /\ Len(out) = 1

\* C7: the token a connection works with is the store's token for its cookie
\* at the moment it is accepted; with none, the open handler sends nothing and
\* no authorize message ever goes out on that connection's upstream socket.
C7_NoTokenNoAuthorize ==
  /\ lastOp.op = "connection" =>
       token[lastOp.conn] = IF lastOp.sid # NoSid THEN sessionTokenStore[lastOp.sid]
                            ELSE NoToken
  /\ (lastOp.op = "deriv-open" /\ token[lastOp.conn] = NoToken) =>
       (out = << >> /\ meta[lastOp.conn].derivWs = "open")
  /\ \A i \in 1..Len(out) :
       (out[i].to = "deriv" /\ Has(out[i].msg, "authorize")) => token[out[i].id] # NoToken

\* the session got its token only after the connection was accepted
C7_OpenedAfterLateToken ==
  /\ lastOp.op = "deriv-open"
  /\ token[lastOp.conn] = NoToken
  /\ TokenOf(lastOp.sid) # NoToken

\* C8: a successful store-token returns an identifier not issued before and
\* sets that session's token only; the token stays until logout is called with
\* the identifier, and is gone for good afterwards; logout changes no other
\* session; /me and /api/buy answer 401 exactly for identifiers without token.
C8_SessionLifecycle ==
  [][ /\ (lastOp'.op = "store-token" /\ out'[1].msg.status = 200) =>
           LET sid == out'[1].msg.body.sessionId
           IN /\ sid \notin issued
              /\ issued' = issued \cup {sid}
              /\ sessionTokenStore' =
                   [sessionTokenStore EXCEPT ![sid] = lastOp'.arg.token]
              /\ sessionTokenStore'[sid] # NoToken
      /\ lastOp'.op = "logout" =>
           \A s \in SIDS : IF s = lastOp'.sid THEN sessionTokenStore'[s] = NoToken
                           ELSE sessionTokenStore'[s] = sessionTokenStore[s]
      /\ ~(lastOp'.op = "store-token" /\ out'[1].msg.status = 200) => issued' = issued
      /\ lastOp'.op \notin {"store-token", "logout"} =>
           sessionTokenStore' = sessionTokenStore
      /\ \A s \in issued : sessionTokenStore[s] = NoToken => sessionTokenStore'[s] = NoToken
      /\ lastOp'.op \in {"me", "buy"} =>
           (AnsweredWith(out', 401) <=>
              (lastOp'.sid = NoSid \/ sessionTokenStore'[lastOp'.sid] = NoToken))
    ]_vars

\* /me asked with an identifier that was issued and then logged out
C8_LoggedOutRejected ==
  /\ lastOp.op = "me"
  /\ lastOp.sid \in issued
  /\ TokenOf(lastOp.sid) = NoToken
  /\ AnsweredWith(out, 401)

C10_PendingKeysUnique ==
  \A c \in Conns :
    LET waiting == { r \in Buys : accepted[r] = c /\ responses[r] = 0 }
    IN /\ \A r \in waiting : \E e \in meta[c].pendingRequests : e.res = r
       /\ Cardinality(meta[c].pendingRequests) = Cardinality(waiting)

\* the last handler was a trade submission whose upstream send threw: a
\* connection was found and the call was answered with a 500
LastBuySendThrew ==
  /\ LastIsBuy
  /\ lastOp.conn # NoConn
  /\ AnsweredWith(out, 500)

\* C11: when the upstream send of a trade submission throws, the caller is
\* answered at once with an error, the submission has no resolver left, and the
\* connection's pendingRequests is exactly what it was before the submission, so
\* every other pending resolver stays registered.
C11_SendFailureKeepsOtherResolvers ==
  [][ LastBuySendThrew' =>
        LET c == lastOp'.conn
            r == buyCalls'
        IN /\ out'[1].id = r
           /\ responses'[r] = 1
           /\ \A e \in meta'[c].pendingRequests : e.res # r
           /\ meta'[c].pendingRequests = meta[c].pendingRequests
    ]_vars

\* C12: an authorized event goes to a client only in the handler of an upstream
\* authorize success received on that client's own upstream socket, and only
\* on a connection that has a token.
C12_AuthorizedOnlyAfterUpstreamSuccess ==
  \A i \in 1..Len(out) :
    (out[i].to = "client" /\ out[i].msg.type = "authorized") =>
       /\ LastIsUpstream("authorize")
       /\ ~Has(lastOp.arg.value.authorize, "error")
       /\ out[i].id = lastOp.conn
       /\ token[out[i].id] # NoToken

LastIsAuthorizeFailure ==
  /\ LastIsUpstream("authorize")
  /\ Has(lastOp.arg.value.authorize, "error")

\* C13: an upstream authorize failure on a connection whose client is
\* connected sends the client exactly one error event with the failure's
\* message and changes nothing else: authorized stays false, accountInfo stays
\* null, both sockets and the registry entry stay, no call is answered.  A
\* connection becomes authorized only by an authorize success on its own
\* upstream socket, and a trade submission of a session none of whose
\* registered connections is authorized is answered 500 "deriv connection not
\* ready".
C13_AuthorizeFailureKeepsConnection ==
  [][ /\ (LastIsAuthorizeFailure' /\ ws[lastOp'.conn] = "open") =>
           LET c == lastOp'.conn
           IN /\ out' = << [to |-> "client", id |-> c,
                            msg |-> [type |-> "error",
                                     message |->
                                       lastOp'.arg.value.authorize.error.message]] >>
              /\ meta' = meta
              /\ ~meta'[c].authorized
              /\ meta'[c].accountInfo = Null
              /\ meta'[c].derivWs = "open"
              /\ ws' = ws
              /\ clientMeta' = clientMeta
              /\ c \in clientMeta'
              /\ responses' = responses
      /\ \A c \in Conns :
           (meta'[c].authorized /\ ~meta[c].authorized) =>
              /\ LastIsUpstream("authorize")'
              /\ ~Has(lastOp'.arg.value.authorize, "error")
              /\ lastOp'.conn = c
      /\ (/\ LastIsBuy'
          /\ \A c \in clientMeta : meta[c].sessionId = lastOp'.sid => ~meta[c].authorized) =>
           out' = << [to |-> "http", id |-> buyCalls',
                      msg |-> [status |-> 500,
                               body |-> [ok |-> FALSE,
                                         error |-> "deriv connection not ready"]]] >>
    ]_vars

\* a trade submission refused after the session's connection had its authorize
\* request answered with a failure
C13_RefusedAfterFailure ==
  /\ LastIsBuy
  /\ AnsweredWith(out, 500)
  /\ \E c \in clientMeta :
       /\ meta[c].sessionId = lastOp.sid
       /\ token[c] # NoToken
       /\ meta[c].derivWs = "open"
       /\ c \notin awaitingAuthorize
       /\ ~meta[c].authorized

LastIsUnsubscribe ==
  /\ lastOp.op = "client-message"
  /\ lastOp.arg.json
  /\ lastOp.arg.value.type = "unsubscribe"
  /\ lastOp.arg.value.symbol # NoSymbol

\* C14: an unsubscribe(symbol) received while the upstream socket is open sends
\* one forget request upstream, removes symbol from subscribed and acknowledges
\* with exactly one unsubscribed event; a symbol enters subscribed only by a
\* subscribe of that symbol on that connection.
C14_UnsubscribeForgets ==
  [][ /\ (LastIsUnsubscribe' /\ meta[lastOp'.conn].derivWs = "open") =>
           LET c == lastOp'.conn
               s == lastOp'.arg.value.symbol
           IN /\ out' = << [to |-> "deriv", id |-> c, msg |-> [forget |-> "ticks"]],
                           [to |-> "client", id |-> c,
                            msg |-> [type |-> "unsubscribed", symbol |-> s]] >>
              /\ meta'[c].subscribed = meta[c].subscribed \ {s}
      /\ \A c \in Conns : \A s \in Symbols :
           (s \in meta'[c].subscribed /\ s \notin meta[c].subscribed) =>
              /\ LastIsSubscribe'
              /\ lastOp'.conn = c
              /\ lastOp'.arg.value.symbol = s
    ]_vars

\* C15: a symbol enters a connection's subscribed only in a step that sends
\* {ticks: symbol, subscribe: 1} on that connection's upstream socket, and a
\* step that sends a forget for the symbol leaves it out of subscribed; so
\* subscribed holds only symbols whose subscribe request was sent and not
\* forgotten since.
C15_SubscribedOnlyIfSent ==
  [][ \A c \in Conns : \A s \in Symbols :
        /\ (s \in meta'[c].subscribed /\ s \notin meta[c].subscribed) =>
             \E i \in 1..Len(out') :
               out'[i] = [to |-> "deriv", id |-> c,
                          msg |-> [ticks |-> s, subscribe |-> 1]]
        /\ (/\ LastIsUnsubscribe'
            /\ lastOp'.conn = c
            /\ lastOp'.arg.value.symbol = s
            /\ \E i \in 1..Len(out') : out'[i].to = "deriv") =>
             s \notin meta'[c].subscribed
    ]_vars

\* the last handler handled an upstream buy or error message to its end
LastIsTradeReply ==
  /\ running
  /\ (LastIsUpstream("buy") \/ LastIsUpstream("error"))

\* C16: a buy or error message on connection A's upstream socket sends
\* buy_result to A's client only, first, and then answers only calls whose
\* resolver was in A's pendingRequests; it leaves the pendingRequests of every
\* other connection as they were; and a call whose payload went out on a
\* connection is answered only by a message on that connection's upstream
\* socket.
C16_ResolutionIsConnectionScoped ==
  [][ /\ LastIsTradeReply' =>
           LET A == lastOp'.conn
           IN /\ \A B \in Conns \ {A} :
                   meta'[B].pendingRequests = meta[B].pendingRequests
              /\ \A i \in 1..Len(out') :
                   \/ /\ i = 1
                      /\ out'[i] = [to |-> "client", id |-> A,
                                    msg |-> [type |-> "buy_result",
                                             result |-> lastOp'.arg.value]]
                   \/ /\ out'[i].to = "http"
                      /\ \E e \in meta[A].pendingRequests : e.res = out'[i].id
              /\ ws[A] = "open" => (Len(out') >= 1 /\ out'[1].to = "client")
      /\ \A r \in Buys :
           (accepted[r] # NoConn /\ responses'[r] # responses[r]) =>
              (LastIsTradeReply' /\ lastOp'.conn = accepted[r])
    ]_vars

\* a reply handled on one connection while another has a resolver pending
C16_OtherConnectionKeptPending ==
  /\ LastIsTradeReply
  /\ \E B \in Conns \ {lastOp.conn} : meta[B].pendingRequests # {}

\* C17 (as claimed): a client disconnect answers no call, and a call pending
\* on a connection whose client has disconnected is never answered.
C17_DisconnectLeavesResolversUnresolved ==
  [][ /\ lastOp'.op = "client-close" => responses' = responses
      /\ \A r \in Buys :
           (/\ accepted[r] # NoConn
            /\ ws[accepted[r]] = "closed"
            /\ responses[r] = 0) => responses'[r] = 0
    ]_vars

\* C17 (amended): a client disconnect answers no call and removes no resolver;
\* a call pending on a connection whose client has disconnected is answered
\* only by a buy or error message that still arrives on that connection's
\* upstream socket while it is closing, never once that socket has closed.
C17_ResolvedOnlyByLateReply ==
  [][ /\ lastOp'.op = "client-close" =>
           /\ responses' = responses
           /\ \A c \in Conns : meta'[c].pendingRequests = meta[c].pendingRequests
      /\ \A r \in Buys :
           (/\ accepted[r] # NoConn
            /\ ws[accepted[r]] = "closed"
            /\ responses'[r] # responses[r]) =>
              /\ LastIsTradeReply'
              /\ lastOp'.conn = accepted[r]
              /\ meta[accepted[r]].derivWs = "closing"
    ]_vars

\* a call answered by a reply that arrived after its client had disconnected
C17_ResolvedAfterDisconnect ==
  /\ LastIsTradeReply
  /\ ws[lastOp.conn] = "closed"
  /\ \E r \in Buys : accepted[r] = lastOp.conn /\ responses[r] = 1

\* C18: when a connection's upstream socket closes or errors, the client
\* socket and the registry are left as they are; a closed upstream socket
\* stays closed (none is opened in its place); the client of a connection whose
\* upstream socket is closed gets no tick, authorized, balance or buy_result
\* event; and a client socket leaves the open state, and its entry the
\* registry, only by the client disconnecting.
C18_UpstreamCloseLeavesClientInert ==
  [][ /\ lastOp'.op = "deriv-close" =>
           /\ ws' = ws
           /\ clientMeta' = clientMeta
           /\ meta'[lastOp'.conn].derivWs = "closed"
      /\ \A c \in Conns :
           /\ meta[c].derivWs = "closed" => meta'[c].derivWs = "closed"
           /\ (ws[c] = "open" /\ ws'[c] # "open") =>
                (lastOp'.op = "client-close" /\ lastOp'.conn = c)
           /\ (c \in clientMeta /\ c \notin clientMeta') =>
                (lastOp'.op = "client-close" /\ lastOp'.conn = c)
           /\ meta[c].derivWs = "closed" =>
                \A i \in 1..Len(out') :
                  ~(/\ out'[i].to = "client"
                    /\ out'[i].id = c
                    /\ out'[i].msg.type \in
                         {"tick", "authorized", "balance", "buy_result"})
    ]_vars

\* a client message handled on a connection whose upstream socket has closed
C18_ClientStillServed ==
  /\ lastOp.op = "client-message"
  /\ ws[lastOp.conn] = "open"
  /\ lastOp.conn \in clientMeta
  /\ meta[lastOp.conn].derivWs = "closed"

\* C19: every POST /api/buy call gets at most one HTTP response, and a call
\* that has its response has no resolver left in any pendingRequests.
C19_AtMostOneResponse ==
  \A r \in Buys :
    /\ responses[r] <= 1
    /\ responses[r] = 1 =>
         \A c \in Conns : \A e \in meta[c].pendingRequests : e.res # r

\* a call answered by its resolver, on a connection whose client is connected
C19_ResolvedOnce ==
  /\ LastIsTradeReply
  /\ ws[lastOp.conn] = "open"
  /\ Len(out) = 2
  /\ out[2].to = "http"
  /\ responses[out[2].id] = 1

\* C20: POST /logout changes nothing but the store entry of the caller's
\* session: registry, connection states, sockets and captured tokens stay, and
\* ticks keep being forwarded whatever the store holds; a connection accepted
\* with an identifier that has no token captures no token, a captured token
\* never changes, and authorize goes upstream only on a connection that
\* captured a token.
C20_LogoutTouchesOnlySessionStore ==
  [][ /\ lastOp'.op = "logout" =>
           /\ meta' = meta
           /\ clientMeta' = clientMeta
           /\ ws' = ws
           /\ token' = token
           /\ awaitingAuthorize' = awaitingAuthorize
           /\ \A s \in SIDS : s # lastOp'.sid =>
                sessionTokenStore'[s] = sessionTokenStore[s]
      /\ (/\ lastOp'.op = "connection"
          /\ (lastOp'.sid = NoSid \/ sessionTokenStore[lastOp'.sid] = NoToken)) =>
           token'[lastOp'.conn] = NoToken
      /\ \A c \in Conns : ws[c] # "none" => token'[c] = token[c]
      /\ \A i \in 1..Len(out') :
           (out'[i].to = "deriv" /\ Has(out'[i].msg, "authorize")) =>
              token'[out'[i].id] # NoToken
      /\ (LastIsTick' /\ ws[lastOp'.conn] = "open") =>
           (Len(out') = 1 /\ out'[1].to = "client" /\ out'[1].id = lastOp'.conn)
    ]_vars

\* a session logged out while its connection is authorized, upstream open
C20_LoggedOutWhileLive ==
  /\ lastOp.op = "logout"
  /\ TokenOf(lastOp.sid) = NoToken
  /\ \E c \in clientMeta :
       /\ meta[c].sessionId = lastOp.sid
       /\ meta[c].authorized
       /\ meta[c].derivWs = "open"
====
